---- MODULE Spec2Model ----
(***************************************************************************)
(* Model of routes/config_api.py: the CRUD handlers over the configuration *)
(* collection and the relational connection test.                          *)
(*                                                                         *)
(* The collection is a set of documents; a document is a function from     *)
(* its keys ("_id" and the fields that are set) to values.  An ObjectId is *)
(* a sequence of 12 bytes, its string form the 24 lowercase hex digits.    *)
(* Every handler except update_config makes one store call and is one      *)
(* action; update_config makes three (find_one, update_one, find_one) and  *)
(* is three actions, so that requests served by other workers interleave   *)
(* with it.  A response stays in last until it is delivered; no handler    *)
(* step is taken while one waits, which restricts no store behaviour.      *)
(***************************************************************************)
EXTENDS Integers, Sequences, FiniteSets, TLC

\* ---------------------------------------------------------------- bounds
MaxDocs == 2        \* ObjectIds the store can hand out in one behaviour

\* ---------------------------------------------------------------- values
\* the fields of a configuration and the values each can take
FieldValues == [field_a |-> {"orig", "x"}, field_b |-> {"keep"}]
Fields == DOMAIN FieldValues
Values == UNION {FieldValues[k] : k \in Fields}

\* model_dump(exclude_unset=True): only the fields that were set
Payloads ==
    UNION {{config \in [S -> Values] : \A k \in S : config[k] \in FieldValues[k]}
              : S \in SUBSET Fields}

\* ------------------------------------------------------------- ObjectId
HexDigits == <<"0","1","2","3","4","5","6","7","8","9","a","b","c","d","e","f">>

HexVal(c) ==
    CASE c = "0" -> 0  [] c = "1" -> 1  [] c = "2" -> 2  [] c = "3" -> 3
      [] c = "4" -> 4  [] c = "5" -> 5  [] c = "6" -> 6  [] c = "7" -> 7
      [] c = "8" -> 8  [] c = "9" -> 9
      [] c \in {"a", "A"} -> 10  [] c \in {"b", "B"} -> 11
      [] c \in {"c", "C"} -> 12  [] c \in {"d", "D"} -> 13
      [] c \in {"e", "E"} -> 14  [] c \in {"f", "F"} -> 15
      [] OTHER -> -1

\* what stands for the exception ObjectId raises: no bytes at all
InvalidId == << >>

\* str(ObjectId) with the two digits of a byte in the wrong order
StrSwapped(oid) ==
    [i \in 1..(2 * Len(oid)) |->
        IF i % 2 = 1 THEN HexDigits[(oid[(i + 1) \div 2] % 16) + 1]
                     ELSE HexDigits[(oid[i \div 2] \div 16) + 1]]

\* str(ObjectId): two lowercase hex digits per byte
Str(oid) ==
    [i \in 1..(2 * Len(oid)) |->
        IF i % 2 = 1 THEN HexDigits[(oid[(i + 1) \div 2] \div 16) + 1]
                     ELSE HexDigits[(oid[i \div 2] % 16) + 1]]

\* a string of exactly 24 hex digits, either case
IsValidId(s) == Len(s) = 24 /\ \A i \in 1..Len(s) : HexVal(s[i]) >= 0

\* ObjectId(config_id): the 12 bytes, or the InvalidId exception
ObjectId(s) ==
    IF IsValidId(s)
    THEN [i \in 1..12 |-> HexVal(s[2 * i - 1]) * 16 + HexVal(s[2 * i])]
    ELSE InvalidId

\* the ObjectId whose last byte is n
OidOf(n) == [i \in 1..12 |-> IF i = 12 THEN n ELSE 0]

\* the ObjectIds the store's generator can produce in this model
Oids == {OidOf(170 + n) : n \in 1..MaxDocs}

Upper(c) ==
    CASE c = "a" -> "A" [] c = "b" -> "B" [] c = "c" -> "C"
      [] c = "d" -> "D" [] c = "e" -> "E" [] c = "f" -> "F"
      [] OTHER -> c

UpperStr(s) == [i \in 1..Len(s) |-> Upper(s[i])]

NotAnId == <<"n","o","t","-","a","n","-","i","d">>
ShortId == SubSeq(Str(OidOf(171)), 1, 23)
NonHexId == [Str(OidOf(171)) EXCEPT ![1] = "g"]

\* the path parameter {config_id} of a request
IdStrings ==
    {Str(o) : o \in Oids} \cup {UpperStr(Str(OidOf(171)))}
        \cup {NotAnId, ShortId, NonHexId}

\* ------------------------------------------------------------ documents
NoBody == << >>

\* format_mongo_obj: obj["_id"] = str(obj["_id"])
format_mongo_obj(obj) == [obj EXCEPT !["_id"] = Str(obj["_id"])]

\* insert_one adds the generated "_id" to the dumped payload
WithId(data, oid) ==
    [k \in DOMAIN data \cup {"_id"} |-> IF k = "_id" THEN oid ELSE data[k]]

\* the stored document replaced by the payload instead of merged with it
SetFieldsReplace(doc, data) ==
    [k \in DOMAIN data \cup {"_id"} |-> IF k = "_id" THEN doc[k] ELSE data[k]]

\* {"$set": updated_data} applied to a stored document
SetFields(doc, data) ==
    [k \in DOMAIN doc \cup DOMAIN data |->
        IF k \in DOMAIN data THEN data[k] ELSE doc[k]]

VARIABLES
    configs,    \* the documents of CONFIGS_COLLECTION
    issued,     \* the ObjectIds the store has generated so far
    upd,        \* the update_config request between its store calls
    last,       \* the request just answered, with its response
    created,    \* the last document created and not updated or deleted since
    deleted     \* the ObjectIds a delete_config has answered with success

vars == <<configs, issued, upd, last, created, deleted>>

Ids(coll) == {d["_id"] : d \in coll}

\* a find_one whose filter matches every document
find_oneAny(coll, oid) == coll

\* find_one({"_id": oid}): the matching documents (none or one)
find_one(coll, oid) == {d \in coll : d["_id"] = oid}

\* a generator that hands out again the ObjectId of a deleted document
NewOidsReused == Oids \ Ids(configs)

\* a generator that hands out any ObjectId, also one that is in the store
NewOidsAny == Oids

\* the ObjectIds insert_one can generate: the generator never repeats one
NewOids == Oids \ issued

\* modified_count is -1 where update_one has not been called
Idle ==
    [pc |-> "idle", config_id |-> InvalidId, updated_data |-> NoBody,
     modified_count |-> -1, wrote |-> FALSE]

NoRequest ==
    [op |-> "none", config_id |-> << >>, data |-> NoBody, collection |-> TRUE,
     status |-> 0, body |-> NoBody, detail |-> "", wrote |-> FALSE,
     modified_count |-> -1, conn |-> "none"]

Response(op, config_id, data, collection, status, body, detail, wrote, mc) ==
    [op |-> op, config_id |-> config_id, data |-> data,
     collection |-> collection, status |-> status, body |-> body,
     detail |-> detail, wrote |-> wrote, modified_count |-> mc,
     conn |-> "none"]

NoneCreated == [id |-> << >>, data |-> NoBody]

Init ==
    /\ configs = {}
    /\ issued = {}
    /\ upd = Idle
    /\ last = NoRequest
    /\ created = NoneCreated
    /\ deleted = {}

\* -------------------------------------------------------------- handlers

\* The parameter collection of a handler is TRUE when get_mongo_collection
\* returned a handle and FALSE when it returned None.  A handler that uses
\* None without testing it raises AttributeError, which the framework
\* answers with 500.

\* GET /get_configs
get_configs(collection) ==
    /\ last.op = "none"
    /\ UNCHANGED <<configs, issued, upd, created, deleted>>
    /\ IF collection
       THEN last' = Response("get_configs", << >>, NoBody, collection, 200,
                             {format_mongo_obj(d) : d \in configs}, "",
                             configs' /= configs, -1)
       ELSE last' = Response("get_configs", << >>, NoBody, collection, 500,
                             NoBody, "Internal Server Error",
                             configs' /= configs, -1)

\* POST /new_config; inserted is whether the store reports an inserted_id
create_new_config(config, collection, inserted) ==
    /\ last.op = "none"
    /\ UNCHANGED <<upd, deleted>>
    /\ IF ~collection
       THEN /\ UNCHANGED <<configs, issued, created, deleted>>
            /\ last' = Response("create_new_config", << >>, NoBody,
                                collection, 500, NoBody,
                                "Internal Server Error",
                                configs' /= configs, -1)
       ELSE IF inserted
       THEN \E oid \in NewOids :
               LET config_data == WithId(config, oid)
                   body == format_mongo_obj(config_data)
               IN /\ configs' = configs \cup {config_data}
                  /\ issued' = issued \cup {oid}
                  /\ created' = [id |-> body["_id"], data |-> config]
                  /\ last' = Response("create_new_config", << >>, config,
                                      collection, 200, body, "",
                                      configs' /= configs, -1)
       ELSE /\ UNCHANGED <<configs, issued, created, deleted>>
            /\ last' = Response("create_new_config", << >>, NoBody,
                                collection, 400, NoBody,
                                "Configuration could not be created",
                                configs' /= configs, -1)

\* GET /get_config/{config_id}
get_config(config_id, collection) ==
    /\ last.op = "none"
    /\ UNCHANGED <<configs, issued, upd, created, deleted>>
    /\ LET oid == ObjectId(config_id)
           config == find_one(configs, oid)
           Answer(status, body, detail) ==
               last' = Response("get_config", config_id, NoBody, collection,
                                status, body, detail, configs' /= configs, -1)
       IN IF ~collection THEN Answer(500, NoBody, "Collection not found")
          ELSE IF oid = InvalidId
          THEN Answer(400, NoBody, "Invalid config ID format")
          ELSE IF config = {} THEN Answer(404, NoBody, "Config not found")
          ELSE \E c \in config : Answer(200, format_mongo_obj(c), "")

\* what remains of created once the document oid was changed or removed
Forget(oid, changed) ==
    IF changed /\ created.id = Str(oid) THEN NoneCreated ELSE created

\* PUT /update_config/{config_id}, up to and including the first find_one
update_config_find(config_id, updated_config, collection) ==
    /\ last.op = "none"
    /\ upd.pc = "idle"
    /\ UNCHANGED <<configs, issued, created, deleted>>
    /\ LET oid == ObjectId(config_id)
           config_data == find_one(configs, oid)
           Answer(status, detail) ==
               /\ last' = Response("update_config", config_id, NoBody,
                                   collection, status, NoBody, detail,
                                   configs' /= configs, -1)
               /\ UNCHANGED upd
       IN IF ~collection THEN Answer(500, "Collection not found")
          ELSE IF oid = InvalidId THEN Answer(400, "Invalid config ID format")
          ELSE IF config_data = {} THEN Answer(404, "Config not found")
          ELSE /\ upd' = [pc |-> "found", config_id |-> oid,
                           updated_data |-> updated_config,
                           modified_count |-> -1, wrote |-> FALSE]
               /\ UNCHANGED last

\* the test of modified_count passing for a document that was not modified
ModifiedOrNot(modified_count) == modified_count >= 0

\* result.modified_count == 1
Modified(modified_count) == modified_count = 1

\* update_one({"_id": config_id}, {"$set": updated_data}) and the test of
\* result.modified_count
update_config_set ==
    /\ last.op = "none"
    /\ upd.pc = "found"
    /\ UNCHANGED <<issued, deleted>>
    /\ LET oid == upd.config_id
           updated_data == upd.updated_data
           matched == find_one(configs, oid)
           modified_count ==
               Cardinality({d \in matched : SetFields(d, updated_data) /= d})
       IN /\ configs' = (configs \ matched)
                           \cup {SetFields(d, updated_data) : d \in matched}
          /\ created' = Forget(oid, configs' /= configs)
          /\ IF Modified(modified_count)
             THEN /\ upd' = [upd EXCEPT !.pc = "modified",
                                         !.modified_count = modified_count,
                                         !.wrote = (configs' /= configs)]
                  /\ UNCHANGED last
             ELSE /\ upd' = Idle
                  /\ last' = Response("update_config", Str(oid), updated_data,
                                      TRUE, 400, NoBody,
                                      "Configuration could not be updated",
                                      configs' /= configs, modified_count)

\* the second find_one and format_mongo_obj; format_mongo_obj(None) raises
\* TypeError, which the framework answers with 500
update_config_refetch ==
    /\ last.op = "none"
    /\ upd.pc = "modified"
    /\ UNCHANGED <<configs, issued, created, deleted>>
    /\ upd' = Idle
    /\ LET oid == upd.config_id
           updated_config_data == find_one(configs, oid)
           Answer(status, body, detail) ==
               last' = Response("update_config", Str(oid),
                                upd.updated_data, TRUE, status, body,
                                detail, upd.wrote, upd.modified_count)
       IN IF updated_config_data = {}
          THEN Answer(500, NoBody, "Internal Server Error")
          ELSE \E c \in updated_config_data :
                  Answer(200, format_mongo_obj(c), "")

\* DELETE /delete_config/{config_id}
delete_config(config_id, collection) ==
    /\ last.op = "none"
    /\ UNCHANGED <<issued, upd>>
    /\ LET oid == ObjectId(config_id)
           matched == find_one(configs, oid)
           deleted_count == Cardinality(matched)
           Answer(status, body, detail) ==
               last' = Response("delete_config", config_id, NoBody, collection,
                                status, body, detail, configs' /= configs, -1)
       IN IF ~collection
          THEN /\ UNCHANGED <<configs, created, deleted>>
               /\ Answer(500, NoBody, "Collection not found")
          ELSE IF oid = InvalidId
          THEN /\ UNCHANGED <<configs, created, deleted>>
               /\ Answer(400, NoBody, "Invalid config ID format")
          ELSE /\ configs' = configs \ matched
               /\ created' = Forget(oid, configs' /= configs)
               /\ IF deleted_count = 1
                  THEN /\ deleted' = deleted \cup {oid}
                       /\ Answer(200,
                                 [message |-> "Config deleted successfully"],
                                 "")
                  ELSE /\ UNCHANGED deleted
                       /\ Answer(404, NoBody, "Config not found")

\* ------------------------------------------------------ connection test

\* what the driver does with the URL: create_engine raises, connect raises,
\* close raises, or none of them does
DriverEvents == {"engine_error", "connect_error", "close_error", "ok"}

\* test_db: the success flag, and the connection the call leaves behind.
\* released is whether a close() that raised had closed the connection.
test_db(event, released) ==
    CASE event = "engine_error" -> [success |-> FALSE, conn |-> "none"]
      [] event = "connect_error" -> [success |-> FALSE, conn |-> "none"]
      [] event = "close_error" ->
            [success |-> FALSE, conn |-> IF released THEN "closed" ELSE "open"]
      [] event = "ok" -> [success |-> TRUE, conn |-> "closed"]

\* POST /test_db_connection
test_db_connection(event, released) ==
    /\ last.op = "none"
    /\ UNCHANGED <<configs, issued, upd, created, deleted>>
    /\ LET result == test_db(event, released)
       IN last' =
            [Response("test_db_connection", << >>, NoBody, TRUE,
                      IF result.success THEN 200 ELSE 500,
                      IF result.success
                      THEN [status |-> "Database connection successful"]
                      ELSE NoBody,
                      IF result.success THEN "" ELSE event,
                      configs' /= configs, -1)
             EXCEPT !.conn = result.conn]

\* the response leaves the server
deliver ==
    /\ last.op /= "none"
    /\ last' = NoRequest
    /\ UNCHANGED <<configs, issued, upd, created, deleted>>

Next ==
    \/ \E c \in BOOLEAN : get_configs(c)
    \/ \E d \in Payloads, c \in BOOLEAN, i \in BOOLEAN :
          create_new_config(d, c, i)
    \/ \E s \in IdStrings, c \in BOOLEAN : get_config(s, c)
    \/ \E s \in IdStrings, d \in Payloads, c \in BOOLEAN :
          update_config_find(s, d, c)
    \/ update_config_set
    \/ update_config_refetch
    \/ \E s \in IdStrings, c \in BOOLEAN : delete_config(s, c)
    \/ \E e \in DriverEvents, r \in BOOLEAN : test_db_connection(e, r)
    \/ deliver

Spec == Init /\ [][Next]_vars

\* ---------------------------------------------------------------- claims

ErrorStatus == {400, 404, 500}

\* the update_one call of an update_config request is this step
IsUpdateOne == upd.pc = "found" /\ upd'.pc /= "found"

\* C1: a successful create followed, with no update or delete of that
\* document in between, by a get with the returned identifier (the
\* collection handle obtained) answers 200 with a document that has exactly
\* the fields the payload set, with their values, and the returned
\* identifier, a non-empty string.
C1_CreateThenGet ==
    (/\ last.op = "get_config"
     /\ last.collection
     /\ created /= NoneCreated
     /\ last.config_id = created.id)
        => /\ last.status = 200
           /\ DOMAIN last.body = DOMAIN created.data \cup {"_id"}
           /\ \A k \in DOMAIN created.data : last.body[k] = created.data[k]
           /\ last.body["_id"] = created.id
           /\ Len(last.body["_id"]) > 0
           /\ \A i \in 1..Len(last.body["_id"]) :
                 last.body["_id"][i] \in STRING

C1_Witness ==
    /\ last.op = "get_config"
    /\ last.status = 200
    /\ last.config_id = created.id
    /\ DOMAIN created.data = Fields
    /\ Cardinality(configs) = 2

\* C2: a get whose identifier cannot be parsed as an ObjectId answers 400,
\* whatever the store holds and whether or not the collection handle was
\* obtained.
C2_MalformedIs400 ==
    (last.op = "get_config" /\ ObjectId(last.config_id) = InvalidId)
        => last.status = 400

\* C3: the update_one of an update changes only the addressed document and
\* in it only the fields the payload sets: every other key keeps its value,
\* no key outside the payload appears, and every other document stays.
C3_PartialUpdate ==
    [][IsUpdateOne =>
        /\ \A d \in configs :
              IF d["_id"] = upd.config_id
              THEN \E e \in configs' :
                      /\ e["_id"] = d["_id"]
                      /\ DOMAIN e = DOMAIN d \cup DOMAIN upd.updated_data
                      /\ \A k \in DOMAIN d \ DOMAIN upd.updated_data :
                            e[k] = d[k]
              ELSE d \in configs'
        /\ Cardinality(configs') = Cardinality(configs)]_vars

C3_Witness ==
    /\ last.op = "update_config"
    /\ last.status = 200
    /\ DOMAIN last.data = {"field_a"}
    /\ "field_b" \in DOMAIN last.body
    /\ Cardinality(configs) = 2

\* C4: with the collection handle obtained, a delete of an identifier that
\* is in the store answers 200 and removes that document and no other, and
\* a delete of an identifier that a delete has already removed answers 404,
\* whatever ran in between.
C4_DeleteTwice ==
    [][(last.op = "none" /\ last'.op = "delete_config" /\ last'.collection) =>
        LET oid == ObjectId(last'.config_id)
        IN /\ oid \in Ids(configs) =>
                /\ last'.status = 200
                /\ configs' = {d \in configs : d["_id"] /= oid}
                /\ Cardinality(configs') = Cardinality(configs) - 1
           /\ oid \in deleted =>
                /\ last'.status = 404
                /\ configs' = configs]_vars

C4_Witness ==
    /\ last.op = "delete_config"
    /\ last.status = 404
    /\ ObjectId(last.config_id) \in deleted
    /\ configs /= {}
    /\ upd.pc = "modified"

\* C5: with the collection handle obtained, a get, an update or a delete
\* with a well-formed identifier that matches no stored document answers
\* 404.
C5_MissingIs404 ==
    [][(/\ last.op = "none"
        /\ last'.op \in {"get_config", "update_config", "delete_config"}
        /\ last'.op = "update_config" => upd.pc = "idle"
        /\ last'.collection
        /\ ObjectId(last'.config_id) /= InvalidId
        /\ ObjectId(last'.config_id) \notin Ids(configs))
            => last'.status = 404]_vars

C5_Witness ==
    /\ last.op = "get_config"
    /\ last.status = 404
    /\ last.collection
    /\ ObjectId(last.config_id) \notin issued
    /\ configs /= {}

\* C6: an update of an existing document answers 400 with the generic
\* update error when update_one reports no modified document, which it does
\* when every field of the payload already has the stored value; it answers
\* with the document only when update_one reported one modified document.
C6_ZeroModifiedIs400 ==
    [][/\ (last'.op = "update_config" /\ last'.modified_count = 0) =>
            /\ last'.status = 400
            /\ last'.detail = "Configuration could not be updated"
       /\ (last'.op = "update_config" /\ last'.status = 200) =>
            last'.modified_count = 1
       /\ (/\ IsUpdateOne
           /\ \E d \in configs :
                 /\ d["_id"] = upd.config_id
                 /\ \A k \in DOMAIN upd.updated_data :
                       k \in DOMAIN d /\ d[k] = upd.updated_data[k]) =>
            /\ last'.op = "update_config"
            /\ last'.status = 400
            /\ last'.modified_count = 0]_vars

C6_Witness ==
    /\ last.op = "update_config"
    /\ last.status = 400
    /\ last.modified_count = 0
    /\ DOMAIN last.data /= {}
    /\ \E d \in configs :
          /\ Str(d["_id"]) = last.config_id
          /\ \A k \in DOMAIN last.data :
                k \in DOMAIN d /\ d[k] = last.data[k]

\* C7: after every step stored documents have pairwise distinct
\* identifiers, each one handed out by the store (the store is empty at the
\* start); an identifier enters the store only in the step in which it is
\* handed out, and the update_one of an update changes no identifier.
C7_IdsUniqueAndFixed ==
    [][/\ \A d, e \in configs' : d["_id"] = e["_id"] => d = e
       /\ Ids(configs') \subseteq issued'
       /\ Ids(configs') \subseteq Ids(configs) \cup (issued' \ issued)
       /\ IsUpdateOne => Ids(configs') = Ids(configs)]_vars

C7_Witness ==
    /\ Cardinality(configs) = 2
    /\ last.op = "update_config"
    /\ last.status = 200
    /\ deleted = {}

\* C8: when an update and a delete of the same identifier run concurrently
\* (the delete removes the document after the update has found it), the
\* update answers 200 or 404, and so does the delete.
C8_RaceIs200Or404 ==
    /\ (/\ last.op = "update_config"
        /\ last.modified_count >= 0
        /\ ObjectId(last.config_id) \in deleted) => last.status \in {200, 404}
    /\ (/\ last.op = "delete_config"
        /\ last.collection
        /\ upd.pc /= "idle"
        /\ ObjectId(last.config_id) = upd.config_id)
            => last.status \in {200, 404}

\* C9: when test_db_connection has answered, with success or with a
\* failure, the connection it opened is not open any more.
C9_ConnectionReleased ==
    last.op = "test_db_connection" => last.conn /= "open"

\* C10: a configuration request that answers 400, 404 or 500 has written
\* nothing to the store, and get_configs and get_config never write.
C10_ErrorsWriteNothing ==
    /\ (/\ last.op \in {"get_configs", "create_new_config", "get_config",
                        "update_config", "delete_config"}
        /\ last.status \in ErrorStatus) => ~last.wrote
    /\ last.op \in {"get_configs", "get_config"} => ~last.wrote

====
